---------------------------- MODULE Spec2Model ----------------------------
(***************************************************************************)
(* A model of the ChaCha20 implementation of src/src/chacha20.rs (and of   *)
(* the older copy of it in src/src/main.rs).                               *)
(*                                                                         *)
(* Representation.  TLC's integers are 32-bit signed, so a u32 cannot be   *)
(* a TLC integer.  A u32 is modelled as the pair <<hi, lo>> of its two     *)
(* 16-bit halves, standing for hi * 2^16 + lo; all u32 arithmetic below is *)
(* exact arithmetic modulo 2^32 on that pair.  A u8 is an integer in       *)
(* 0..255, a usize an integer, a Vec<T> a sequence (index i of the code is *)
(* index i + 1 of the sequence).                                           *)
(*                                                                         *)
(* A call either returns a value or panics (unwinds): every function that  *)
(* can panic returns a record [outcome, val] with outcome "returned" or    *)
(* "panicked".  None of the functions has an error return in its type.     *)
(*                                                                         *)
(* Build.  `counter + j as u32` is a plain `+`: it panics when the build   *)
(* has overflow checks (the default of `cargo build` and `cargo test`) and *)
(* wraps when it has none (the default of `--release`).  The variable      *)
(* overflow_checks is that property of the build.  mem::transmute between  *)
(* [u8; 4] and u32 uses the target's byte order; the model is of a         *)
(* little-endian target, the one on which the repository's own tests       *)
(* (test_setup_key, test_block_function) pass.                             *)
(***************************************************************************)
EXTENDS Integers, Sequences, FiniteSets, TLC

VARIABLES
    overflow_checks,  \* the build: TRUE when `+` on u32 panics on overflow
    pc,               \* "main", the name of the function called last, or
                      \* the place reached in a function followed by steps
    args,             \* the arguments of that call
    ret,              \* its outcome
    orig,             \* the buffer of the chacha20_encrypt call before
    locals            \* the locals of a function that is followed step by step

vars == <<overflow_checks, pc, args, ret, orig, locals>>

---------------------------------------------------------------------------
(* Outcomes of a call. *)

Returned(v) == [outcome |-> "returned", val |-> v]

Panicked == [outcome |-> "panicked", val |-> <<>>]

---------------------------------------------------------------------------
(* u32 and u8 primitives. *)

u32(hi, lo) == <<hi, lo>>

RECURSIVE bitxor_bits(_, _, _)
bitxor_bits(a, b, n) ==
    IF n = 0 THEN 0
    ELSE ((a + b) % 2) + 2 * bitxor_bits(a \div 2, b \div 2, n - 1)

\* `^` on 4-bit digits, tabulated once.
bitxor4 == [a \in 0..15 |-> [b \in 0..15 |-> bitxor_bits(a, b, 4)]]

\* `^` on u8.
bitxor_u8(a, b) ==
    bitxor4[a % 16][b % 16] + 16 * bitxor4[a \div 16][b \div 16]

bitxor16(a, b) ==
    bitxor_u8(a % 256, b % 256) + 256 * bitxor_u8(a \div 256, b \div 256)

\* `^` on u32.
bitxor_u32(a, b) == <<bitxor16(a[1], b[1]), bitxor16(a[2], b[2])>>

\* u32::overflowing_add: the wrapped sum and whether it overflowed.
overflowing_add(a, b) ==
    LET lo == a[2] + b[2]
        hi == a[1] + b[1] + (lo \div 65536)
    IN <<u32(hi % 65536, lo % 65536), hi \div 65536 = 1>>

\* u32::rotate_left(n), n in 0..31.
rotate_left(w, n) ==
    LET v == IF n >= 16 THEN <<w[2], w[1]>> ELSE w
        s == n % 16
        p == 2 ^ s
        q == 2 ^ (16 - s)
    IN IF s = 0 THEN v
       ELSE <<((v[1] * p) % 65536) + (v[2] \div q),
              ((v[2] * p) % 65536) + (v[1] \div q)>>

\* `j as u32` for a usize j (truncation to 32 bits).
as_u32(j) == u32((j \div 65536) % 65536, j % 65536)

\* `a + b` on u32.
add_u32(a, b) ==
    LET r == overflowing_add(a, b)
    IN IF r[2] /\ overflow_checks THEN Panicked ELSE Returned(r[1])

\* Mutant: the four bytes read most significant first.
transmute_u8x4_u32_be(b) == u32(b[2] + 256 * b[1], b[4] + 256 * b[3])

\* mem::transmute::<[u8; 4], u32> on a little-endian target.
transmute_u8x4_u32(b) == u32(b[3] + 256 * b[4], b[1] + 256 * b[2])

\* Mutant: the four bytes written most significant first.
transmute_u32_u8x4_be(w) ==
    <<w[1] \div 256, w[1] % 256, w[2] \div 256, w[2] % 256>>

\* mem::transmute::<u32, [u8; 4]> on a little-endian target.
transmute_u32_u8x4(w) ==
    <<w[2] % 256, w[2] \div 256, w[1] % 256, w[1] \div 256>>

---------------------------------------------------------------------------
(* 2.1 The quarter round.                                                  *)
(*                                                                         *)
(* The twelve statements of quarter_round and of macro_quarter_round! are  *)
(* written as operators on a vector of places: v is the vector, p and q    *)
(* are 0-based places in it.  Each statement reads the places as the       *)
(* statements before it left them.                                         *)

\* p = p.overflowing_add(q).0
stmt_add(v, p, q) ==
    [v EXCEPT ![p + 1] = overflowing_add(v[p + 1], v[q + 1])[1]]

\* p ^= q
stmt_xor(v, p, q) == [v EXCEPT ![p + 1] = bitxor_u32(v[p + 1], v[q + 1])]

\* p = p.rotate_left(n)
stmt_rotl(v, p, n) == [v EXCEPT ![p + 1] = rotate_left(v[p + 1], n)]

\* Mutant: the rotations of the third and fourth step exchanged (7 and 8).
quarter_round_rotations(a, b, c, d) ==
    stmt_rotl(stmt_xor(stmt_add(
    stmt_rotl(stmt_xor(stmt_add(
    stmt_rotl(stmt_xor(stmt_add(
    stmt_rotl(stmt_xor(stmt_add(<<a, b, c, d>>,
        0, 1), 3, 0), 3, 16),
        2, 3), 1, 2), 1, 12),
        0, 1), 3, 0), 3, 7),
        2, 3), 1, 2), 1, 8)

\* The function's locals a, b, c, d are the places 0, 1, 2, 3 of <<a, b, c, d>>.
quarter_round(a, b, c, d) ==
    stmt_rotl(stmt_xor(stmt_add(
    stmt_rotl(stmt_xor(stmt_add(
    stmt_rotl(stmt_xor(stmt_add(
    stmt_rotl(stmt_xor(stmt_add(<<a, b, c, d>>,
        0, 1), 3, 0), 3, 16),
        2, 3), 1, 2), 1, 12),
        0, 1), 3, 0), 3, 8),
        2, 3), 1, 2), 1, 7)

\* Mutant: the macro works on copies of the four places and stores nothing.
macro_quarter_round_copies(s, a, b, c, d) == s

\* macro_quarter_round!(s[a], s[b], s[c], s[d]): the expansion works on the
\* places s[a], s[b], s[c], s[d] of s themselves.
macro_quarter_round(s, a, b, c, d) ==
    stmt_rotl(stmt_xor(stmt_add(
    stmt_rotl(stmt_xor(stmt_add(
    stmt_rotl(stmt_xor(stmt_add(
    stmt_rotl(stmt_xor(stmt_add(s,
        a, b), d, a), d, 16),
        c, d), b, c), b, 12),
        a, b), d, a), d, 8),
        c, d), b, c), b, 7)

---------------------------------------------------------------------------
(* 2.2 A quarter round on the ChaCha state. *)

\* Mutant: ret stays the zeros of vec![0; 16], words_16 is not copied in.
write_back_zeroed(x, y, z, w, words_16, new) ==
    [[[[[i \in 1..16 |-> u32(0, 0)] EXCEPT ![x + 1] = new[1]]
                                    EXCEPT ![y + 1] = new[2]]
                                    EXCEPT ![z + 1] = new[3]]
                                    EXCEPT ![w + 1] = new[4]]

\* ret = a copy of words_16[..16]; ret[x] = new_a; ret[y] = new_b;
\* ret[z] = new_c; ret[w] = new_d, in this order.
write_back(x, y, z, w, words_16, new) ==
    [[[[SubSeq(words_16, 1, 16) EXCEPT ![x + 1] = new[1]]
                                EXCEPT ![y + 1] = new[2]]
                                EXCEPT ![z + 1] = new[3]]
                                EXCEPT ![w + 1] = new[4]]

\* Panics on an index that words_16 or the 16-word ret does not have, and on
\* the slice words_16[..16] of a shorter vector.
apply_quarter_round(x, y, z, w, words_16) ==
    IF \/ Len(words_16) < 16
       \/ \E i \in {x, y, z, w} : i >= 16
    THEN Panicked
    ELSE Returned(write_back(x, y, z, w, words_16,
                    quarter_round(words_16[x + 1], words_16[y + 1],
                                  words_16[z + 1], words_16[w + 1])))

---------------------------------------------------------------------------
(* 2.3 The ChaCha20 block function. *)

\* key[i], key[i + 1], key[i + 2], key[i + 3] as the code's [u8; 4] literal.
u8x4_at(v, i) == <<v[i + 1], v[i + 2], v[i + 3], v[i + 4]>>

\* Indexing key[4 * i + k] (i < 8) and nonce[4 * i + k] (i < 3) panics on a
\* vector that is too short; bytes past the 32nd and the 12th are never read.
setup_key(key, counter, nonce) ==
    IF \E i \in 0..7, k \in 0..3 : 4 * i + k >= Len(key)
    THEN Panicked
    ELSE IF \E i \in 0..2, k \in 0..3 : 4 * i + k >= Len(nonce)
    THEN Panicked
    ELSE Returned(
           <<u32(24944, 30821), u32(13088, 25710),
             u32(31074, 11570), u32(27424, 25972)>>
           \o <<transmute_u8x4_u32(u8x4_at(key, 0)),
                transmute_u8x4_u32(u8x4_at(key, 4)),
                transmute_u8x4_u32(u8x4_at(key, 8)),
                transmute_u8x4_u32(u8x4_at(key, 12)),
                transmute_u8x4_u32(u8x4_at(key, 16)),
                transmute_u8x4_u32(u8x4_at(key, 20)),
                transmute_u8x4_u32(u8x4_at(key, 24)),
                transmute_u8x4_u32(u8x4_at(key, 28))>>
           \o <<counter>>
           \o <<transmute_u8x4_u32(u8x4_at(nonce, 0)),
                transmute_u8x4_u32(u8x4_at(nonce, 4)),
                transmute_u8x4_u32(u8x4_at(nonce, 8))>>)

\* The places of the eight macro_quarter_round! statements of the loop body,
\* in program order.
RoundQuadruples ==
    <<<<0, 4, 8, 12>>, <<1, 5, 9, 13>>, <<2, 6, 10, 14>>, <<3, 7, 11, 15>>,
      <<0, 5, 10, 15>>, <<1, 6, 11, 12>>, <<2, 7, 8, 13>>, <<3, 4, 9, 14>>>>

\* Statements i, i + 1, ..., 8 of the loop body on x.  (The guard makes TLC
\* evaluate x before the statements that follow, as the program does.)
RECURSIVE inner_block_from(_, _)
inner_block_from(x, i) ==
    CASE Len(x) = 16 ->
        IF i > 8 THEN x
        ELSE inner_block_from(
                 macro_quarter_round(x, RoundQuadruples[i][1],
                                     RoundQuadruples[i][2],
                                     RoundQuadruples[i][3],
                                     RoundQuadruples[i][4]),
                 i + 1)

\* n iterations of `for _ in 1..=10` on x.
RECURSIVE inner_blocks(_, _)
inner_blocks(x, n) ==
    CASE Len(x) = 16 ->
        IF n = 0 THEN x
        ELSE inner_blocks(inner_block_from(x, 1), n - 1)

\* state[i] = state[i].overflowing_add(x[i]).0 for i in 0..16
add_back(state, x) ==
    [i \in 1..16 |-> overflowing_add(state[i], x[i])[1]]

\* Mutant: the loop runs `1..10`, nine times.
block_of_state_nine(state) ==
    IF state.outcome = "panicked" THEN Panicked
    ELSE Returned(add_back(state.val, inner_blocks(state.val, 9)))

\* The function after `let mut state = setup_key(key, counter, nonce)`.
block_of_state(state) ==
    IF state.outcome = "panicked" THEN Panicked
    ELSE Returned(add_back(state.val, inner_blocks(state.val, 10)))

block_function(key, counter, nonce) ==
    block_of_state(setup_key(key, counter, nonce))

\* block_function of src/main.rs: statement i of its loop body on
\* working_state, working_state = apply_quarter_round(.., working_state).
main_inner_block_step(working_state, i) ==
    apply_quarter_round(RoundQuadruples[i][1], RoundQuadruples[i][2],
                        RoundQuadruples[i][3], RoundQuadruples[i][4],
                        working_state).val

\* Statements i, i + 1, ..., 8 of the loop body of src/main.rs.
RECURSIVE main_inner_block_from(_, _)
main_inner_block_from(working_state, i) ==
    CASE Len(working_state) = 16 ->
        IF i > 8 THEN working_state
        ELSE main_inner_block_from(
                 main_inner_block_step(working_state, i), i + 1)

\* n iterations of `for _ in 1..=10` of src/main.rs.
RECURSIVE main_inner_blocks(_, _)
main_inner_blocks(working_state, n) ==
    CASE Len(working_state) = 16 ->
        IF n = 0 THEN working_state
        ELSE main_inner_blocks(main_inner_block_from(working_state, 1),
                               n - 1)

\* block_function of src/main.rs after `let mut state = setup_key(..)`.
main_block_of_state(state) ==
    IF state.outcome = "panicked" THEN Panicked
    ELSE Returned(add_back(state.val, main_inner_blocks(state.val, 10)))

\* block_function of src/main.rs; its setup_key, quarter_round and
\* apply_quarter_round are the same text as those of src/chacha20.rs.
main_block_function(key, counter, nonce) ==
    main_block_of_state(setup_key(key, counter, nonce))

\* The output has 4 bytes per word of arr32 and starts as zeros; the loop
\* writes the bytes of words 0..15 only, and panics on a missing word.
serialized(arr32) ==
    IF Len(arr32) < 16 THEN Panicked
    ELSE Returned([p \in 1..(4 * Len(arr32)) |->
                     IF p <= 64
                     THEN transmute_u32_u8x4(arr32[((p - 1) \div 4) + 1])
                                            [((p - 1) % 4) + 1]
                     ELSE 0])

---------------------------------------------------------------------------
(* 2.4 The ChaCha20 encryption algorithm. *)

\* serialized(block) of a block function's outcome.
serialized_block(block) ==
    IF block.outcome = "panicked" THEN Panicked ELSE serialized(block.val)

\* The key stream for a block counter that `counter + j as u32` produced.
key_stream_at(key, block_counter, nonce) ==
    IF block_counter.outcome = "panicked" THEN Panicked
    ELSE serialized_block(block_function(key, block_counter.val, nonce))

\* Mutant: every chunk takes the key stream of the initial counter.
key_stream_block_initial(key, counter, nonce, j) ==
    key_stream_at(key, add_u32(counter, as_u32(0)), nonce)

\* serialized(block_function(key.clone(), counter + j as u32, nonce.clone()))
key_stream_block(key, counter, nonce, j) ==
    key_stream_at(key, add_u32(counter, as_u32(j)), nonce)

\* encrypted_message after `for k in 0..n` has XORed n bytes of chunk j.
xor_block(encrypted_message, plaintext, key_stream, j, n) ==
    [p \in 1..Len(encrypted_message) |->
        IF (p - 1) \in (j * 64)..(j * 64 + n - 1)
        THEN bitxor_u8(plaintext[p], key_stream[p - j * 64])
        ELSE encrypted_message[p]]

\* Iterations j, j + 1, ... of `for j in 0..(plaintext.len() / 64)`;
\* key_stream is the key stream of iteration j.
RECURSIVE full_blocks(_, _, _, _, _, _, _)
full_blocks(key, counter, nonce, plaintext, encrypted_message, j, key_stream) ==
    IF j >= Len(plaintext) \div 64 THEN Returned(encrypted_message)
    ELSE IF key_stream.outcome = "panicked" THEN Panicked
    ELSE full_blocks(key, counter, nonce, plaintext,
                     xor_block(encrypted_message, plaintext,
                               key_stream.val, j, 64),
                     j + 1,
                     key_stream_block(key, counter, nonce, j + 1))

\* The `if plaintext.len() % 64 != 1` block; full is the outcome of the loop
\* before it.
last_block(plaintext, full, key_stream) ==
    IF full.outcome = "panicked" THEN Panicked
    ELSE IF Len(plaintext) % 64 # 1
    THEN IF key_stream.outcome = "panicked" THEN Panicked
         ELSE Returned(xor_block(full.val, plaintext, key_stream.val,
                                 Len(plaintext) \div 64,
                                 Len(plaintext) % 64))
    ELSE full

chacha20_encrypt(key, counter, nonce, plaintext) ==
    last_block(plaintext,
               full_blocks(key, counter, nonce, plaintext,
                           [p \in 1..Len(plaintext) |-> 0], 0,
                           key_stream_block(key, counter, nonce, 0)),
               key_stream_block(key, counter, nonce,
                                Len(plaintext) \div 64))

---------------------------------------------------------------------------
(* 2.3, 2.4 step by step: the locals of block_function and of              *)
(* chacha20_encrypt between two of their statements.                       *)

\* block_function after `let mut x = state.clone()` (`working_state` in
\* src/main.rs); source is the file of the block_function that runs, i the
\* number of quarter-round statements executed.
block_function_locals(source, state) ==
    [source |-> source, state |-> state, x |-> state, i |-> 0]

\* x after the next quarter-round statement of the loop: statement
\* (i mod 8) + 1 of the loop body, the macro on the places of x in
\* src/chacha20.rs, x rebuilt by apply_quarter_round in src/main.rs.
mixed(l) ==
    IF l.source = "src/chacha20.rs"
    THEN macro_quarter_round(l.x, RoundQuadruples[(l.i % 8) + 1][1],
                             RoundQuadruples[(l.i % 8) + 1][2],
                             RoundQuadruples[(l.i % 8) + 1][3],
                             RoundQuadruples[(l.i % 8) + 1][4])
    ELSE main_inner_block_step(l.x, (l.i % 8) + 1)

\* Mutant: x is state itself, not a clone of it.
quarter_round_statement_on_state(l) ==
    [l EXCEPT !.x = mixed(l), !.state = mixed(l), !.i = @ + 1]

\* The locals after the next quarter-round statement.
quarter_round_statement(l) == [l EXCEPT !.x = mixed(l), !.i = @ + 1]

\* The locals after `for i in 0..16 { state[i] = .. }`.
add_back_statement(l) == [l EXCEPT !.state = add_back(l.state, l.x)]

\* chacha20_encrypt after `let mut encrypted_message = vec![0; ..]`.
\* block_counters lists the counters of the key stream blocks computed so
\* far and written[p] counts the assignments to encrypted_message[p - 1].
chacha20_encrypt_locals(plaintext) ==
    [encrypted_message |-> [p \in 1..Len(plaintext) |-> 0],
     j |-> 0,
     block_counters |-> <<>>,
     written |-> [p \in 1..Len(plaintext) |-> 0]]

\* The locals after chunk j was computed with key_stream and n of its bytes
\* were XORed into encrypted_message.
chunk_done(l, counter, plaintext, key_stream, j, n) ==
    [l EXCEPT
        !.encrypted_message = xor_block(l.encrypted_message, plaintext,
                                        key_stream, j, n),
        !.block_counters =
            Append(@, overflowing_add(counter, as_u32(j))[1]),
        !.written = [p \in 1..Len(plaintext) |->
                        IF (p - 1) \in (j * 64)..(j * 64 + n - 1)
                        THEN l.written[p] + 1 ELSE l.written[p]]]

\* The call c + n that a caller makes for the counter of the chunk n chunks
\* after the one of counter c.
seek(counter, n) == overflowing_add(counter, as_u32(n))[1]

---------------------------------------------------------------------------
(* The vectors of the repository's tests. *)

\* test_apply_quarter_round: the sample state and QUARTERROUND(2, 7, 8, 13)
\* of it.
SampleState == <<
    u32(34709, 12768), u32(50668, 62333), u32(20836, 25009), u32(51622, 12170),
    u32(17602, 3827), u32(13200, 44927), u32(55804, 26891), u32(10847, 29004),
    u32(21303, 10087), u32(45066, 22065), u32(38732, 21530), u32(13726, 39267),
    u32(23703, 4193), u32(15715, 5769), u32(8344, 55766), u32(37339, 54048)>>

SampleStateAfter == <<
    u32(34709, 12768), u32(50668, 62333), u32(48568, 34524), u32(51622, 12170),
    u32(17602, 3827), u32(13200, 44927), u32(55804, 26891), u32(53164, 45010),
    u32(58475, 60032), u32(45066, 22065), u32(38732, 21530), u32(13726, 39267),
    u32(23703, 4193), u32(52416, 31865), u32(8344, 55766), u32(37339, 54048)>>

\* test_setup_key, test_block_function: key 00..1f.
TestKey == [i \in 1..32 |-> i - 1]

TestNonceBlock == <<0, 0, 0, 9, 0, 0, 0, 74, 0, 0, 0, 0>>

TestSetupState == <<
    u32(24944, 30821), u32(13088, 25710), u32(31074, 11570), u32(27424, 25972),
    u32(770, 256), u32(1798, 1284), u32(2826, 2312), u32(3854, 3340),
    u32(4882, 4368), u32(5910, 5396), u32(6938, 6424), u32(7966, 7452),
    u32(0, 1), u32(2304, 0), u32(18944, 0), u32(0, 0)>>

TestBlockState == <<
    u32(58599, 61712), u32(5465, 15313), u32(8157, 3920), u32(50289, 8355),
    u32(51188, 53703), u32(872, 49203), u32(39594, 8708), u32(20076, 54467),
    u32(18020, 33490), u32(2474, 40711), u32(1495, 49684), u32(41474, 35801),
    u32(53660, 4789), u32(47438, 5854), u32(59523, 53451), u32(20028, 20642)>>

TestBlockBytes == <<
    16, 241, 231, 228, 209, 59, 89, 21, 80, 15, 221, 31, 163, 32, 113, 196,
    199, 209, 244, 199, 51, 192, 104, 3, 4, 34, 170, 154, 195, 212, 108, 78,
    210, 130, 100, 70, 7, 159, 170, 9, 20, 194, 215, 5, 217, 139, 2, 162,
    181, 18, 156, 209, 222, 22, 78, 185, 203, 208, 131, 232, 162, 80, 60, 78>>

\* test_chacha20_encrypt: the 114 bytes of the plaintext, and the ciphertext.
TestNonceEncrypt == <<0, 0, 0, 0, 0, 0, 0, 74, 0, 0, 0, 0>>

TestPlaintext == <<
    76, 97, 100, 105, 101, 115, 32, 97, 110, 100, 32, 71, 101, 110, 116, 108,
    101, 109, 101, 110, 32, 111, 102, 32, 116, 104, 101, 32, 99, 108, 97, 115,
    115, 32, 111, 102, 32, 39, 57, 57, 58, 32, 73, 102, 32, 73, 32, 99,
    111, 117, 108, 100, 32, 111, 102, 102, 101, 114, 32, 121, 111, 117, 32, 111,
    110, 108, 121, 32, 111, 110, 101, 32, 116, 105, 112, 32, 102, 111, 114, 32,
    116, 104, 101, 32, 102, 117, 116, 117, 114, 101, 44, 32, 115, 117, 110, 115,
    99, 114, 101, 101, 110, 32, 119, 111, 117, 108, 100, 32, 98, 101, 32, 105,
    116, 46>>

TestCiphertext == <<
    110, 46, 53, 154, 37, 104, 249, 128, 65, 186, 7, 40, 221, 13, 105, 129,
    233, 126, 122, 236, 29, 67, 96, 194, 10, 39, 175, 204, 253, 159, 174, 11,
    249, 27, 101, 197, 82, 71, 51, 171, 143, 89, 61, 171, 205, 98, 179, 87,
    22, 57, 214, 36, 230, 81, 82, 171, 143, 83, 12, 53, 159, 8, 97, 216,
    7, 202, 13, 191, 80, 13, 106, 97, 86, 163, 142, 8, 138, 34, 182, 94,
    82, 188, 81, 77, 22, 204, 248, 6, 129, 140, 233, 26, 183, 121, 55, 54,
    90, 249, 11, 191, 116, 163, 91, 230, 180, 11, 142, 237, 242, 120, 94, 66,
    135, 77>>

---------------------------------------------------------------------------
(* The inputs of the calls. *)

\* Inputs are up to MaxBlocks whole 64-byte chunks and a rest.
MaxBlocks == 2

ZeroKey == [i \in 1..32 |-> 0]

Keys == {TestKey, ZeroKey}

\* 31, 33 and 0 bytes.
BadKeys == {SubSeq(TestKey, 1, 31), TestKey \o <<32>>, <<>>}

Nonces == {TestNonceBlock, TestNonceEncrypt}

\* 11 and 13 bytes.
BadNonces == {SubSeq(TestNonceBlock, 1, 11), TestNonceBlock \o <<1>>}

KeyNoncePairs ==
    (Keys \X Nonces) \cup (BadKeys \X {TestNonceBlock})
                     \cup ({TestKey} \X BadNonces)

\* 0, 1 and 2^32 - 1.
Counters == {u32(0, 0), u32(0, 1), u32(65535, 65535)}

Lengths == {64 * q + r : q \in 0..MaxBlocks, r \in {0, 1, 63}} \cup {114}

\* The test's plaintext, repeated or cut to len bytes.
TextOfLen(len) == [p \in 1..len |-> TestPlaintext[((p - 1) % 114) + 1]]

ZerosOfLen(len) == [p \in 1..len |-> 0]

Plaintexts == {TextOfLen(len) : len \in Lengths}
              \cup {ZerosOfLen(len) : len \in Lengths}

\* Buffers of the length of plaintext: plaintext with its last byte changed.
OtherPlaintexts(plaintext) ==
    {[plaintext EXCEPT ![p] = bitxor_u8(@, 255)] :
        p \in {Len(plaintext)} \cap (1..Len(plaintext))}

\* Counters for a call that is continued at a later block: 1, 2^32 - 2
\* and 2^32 - 1.
SeekCounters == {u32(0, 1), u32(65535, 65534), u32(65535, 65535)}

\* The key and nonce of such a call: those of test_chacha20_encrypt.
SeekKeyNoncePairs == {<<TestKey, TestNonceEncrypt>>}

\* The words of test_quarter_round, 0 and 2^32 - 1.
Words == {u32(4369, 4369), u32(258, 772), u32(39821, 28483),
          u32(291, 17767), u32(0, 0), u32(65535, 65535)}

ZeroState == [i \in 1..16 |-> u32(0, 0)]

\* Every word 2^32 - 1.
OnesState == [i \in 1..16 |-> u32(65535, 65535)]

States == {SampleState, TestSetupState, TestBlockState, ZeroState, OnesState}

\* The 16-word states, and a vector of 15 and one of 17 words.
Vectors ==
    States \cup {SubSeq(SampleState, 1, 15), SampleState \o <<u32(1, 1)>>}

\* The eight quadruples block_function uses, the one of the test, and all
\* quadruples over four indices, repeated indices included.
Quadruples ==
    {<<0, 4, 8, 12>>, <<1, 5, 9, 13>>, <<2, 6, 10, 14>>, <<3, 7, 11, 15>>,
     <<0, 5, 10, 15>>, <<1, 6, 11, 12>>, <<2, 7, 8, 13>>, <<3, 4, 9, 14>>}
    \cup ({0, 7, 8, 15} \X {0, 7, 8, 15} \X {0, 7, 8, 15} \X {0, 7, 8, 15})

---------------------------------------------------------------------------
(* The calls.  A caller in main calls one function; after chacha20_encrypt *)
(* has returned it may call it again on the output, or on another buffer   *)
(* of the same length, with the same key, counter and nonce.  A caller may *)
(* also encrypt a buffer whole and in two parts.  block_function and       *)
(* chacha20_encrypt are moreover followed statement by statement, with     *)
(* their local variables in locals, until they return or panic.            *)

\* The three calls of a caller that splits plaintext after n chunks.
Parts(key, counter, nonce, plaintext, n) ==
    /\ args' = [key |-> key, counter |-> counter, nonce |-> nonce,
                plaintext |-> plaintext, n |-> n]
    /\ ret' = [whole |-> chacha20_encrypt(key, counter, nonce, plaintext),
               head |-> chacha20_encrypt(key, counter, nonce,
                                         SubSeq(plaintext, 1, 64 * n)),
               tail |-> chacha20_encrypt(key, seek(counter, n), nonce,
                                         SubSeq(plaintext, 64 * n + 1,
                                                Len(plaintext)))]

\* block_function once setup_key has returned or panicked.
BlockFunctionEntered(source, state) ==
    IF state.outcome = "panicked"
    THEN /\ ret' = Panicked
         /\ pc' = "block_function_returned"
         /\ UNCHANGED locals
    ELSE /\ ret' = Returned(<<>>)
         /\ pc' = "block_function_loop"
         /\ locals' = block_function_locals(source, state.val)

\* An iteration of the loop once its key stream is computed, or has panicked.
ChunkWith(key_stream) ==
    IF key_stream.outcome = "panicked"
    THEN /\ ret' = Panicked
         /\ pc' = "chacha20_encrypt_returned"
         /\ UNCHANGED locals
    ELSE /\ locals' = [chunk_done(locals, args.counter, args.plaintext,
                                  key_stream.val, locals.j, 64)
                          EXCEPT !.j = @ + 1]
         /\ UNCHANGED <<ret, pc>>

\* The trailing block once its key stream is computed, or has panicked.
LastChunkWith(key_stream) ==
    IF key_stream.outcome = "panicked"
    THEN /\ ret' = Panicked
         /\ UNCHANGED locals
    ELSE /\ locals' = chunk_done(locals, args.counter, args.plaintext,
                                 key_stream.val,
                                 Len(args.plaintext) \div 64,
                                 Len(args.plaintext) % 64)
         /\ ret' = Returned(locals'.encrypted_message)

Init ==
    /\ overflow_checks \in BOOLEAN
    /\ pc = "main"
    /\ args = <<>>
    /\ ret = Returned(<<>>)
    /\ orig = <<>>
    /\ locals = <<>>

QuarterRound ==
    /\ pc = "main"
    /\ \E a \in Words, b \in Words, c \in Words, d \in Words :
        /\ args' = <<a, b, c, d>>
        /\ ret' = Returned(quarter_round(a, b, c, d))
    /\ pc' = "quarter_round"
    /\ UNCHANGED <<overflow_checks, orig, locals>>

ApplyQuarterRound ==
    /\ pc = "main"
    /\ \E q \in Quadruples, words_16 \in Vectors :
        /\ args' = [x |-> q[1], y |-> q[2], z |-> q[3], w |-> q[4],
                    words_16 |-> words_16]
        /\ ret' = apply_quarter_round(q[1], q[2], q[3], q[4], words_16)
    /\ pc' = "apply_quarter_round"
    /\ UNCHANGED <<overflow_checks, orig, locals>>

SetupKey ==
    /\ pc = "main"
    /\ \E kn \in KeyNoncePairs, counter \in Counters :
        /\ args' = [key |-> kn[1], counter |-> counter, nonce |-> kn[2]]
        /\ ret' = setup_key(kn[1], counter, kn[2])
    /\ pc' = "setup_key"
    /\ UNCHANGED <<overflow_checks, orig, locals>>

BlockFunction ==
    /\ pc = "main"
    /\ \E kn \in KeyNoncePairs, counter \in Counters :
        /\ args' = [key |-> kn[1], counter |-> counter, nonce |-> kn[2]]
        /\ ret' = block_function(kn[1], counter, kn[2])
    /\ pc' = "block_function"
    /\ UNCHANGED <<overflow_checks, orig, locals>>

Serialized ==
    /\ pc = "main"
    /\ \E arr32 \in Vectors :
        /\ args' = [arr32 |-> arr32]
        /\ ret' = serialized(arr32)
    /\ pc' = "serialized"
    /\ UNCHANGED <<overflow_checks, orig, locals>>

ChaCha20Encrypt ==
    /\ pc = "main"
    /\ \E kn \in KeyNoncePairs, counter \in Counters,
          plaintext \in Plaintexts :
        /\ args' = [key |-> kn[1], counter |-> counter, nonce |-> kn[2],
                    plaintext |-> plaintext]
        /\ ret' = chacha20_encrypt(kn[1], counter, kn[2], plaintext)
    /\ pc' = "chacha20_encrypt"
    /\ UNCHANGED <<overflow_checks, orig, locals>>

ChaCha20EncryptAgain ==
    /\ pc = "chacha20_encrypt"
    /\ ret.outcome = "returned"
    /\ args' = [args EXCEPT !.plaintext = ret.val]
    /\ ret' = chacha20_encrypt(args.key, args.counter, args.nonce, ret.val)
    /\ orig' = args.plaintext
    /\ pc' = "chacha20_encrypt_again"
    /\ UNCHANGED <<overflow_checks, locals>>

\* A second call with the key, counter and nonce of the first and another
\* buffer of the same length.
ChaCha20EncryptOther ==
    /\ pc = "chacha20_encrypt"
    /\ ret.outcome = "returned"
    /\ \E other \in OtherPlaintexts(args.plaintext) :
        /\ args' = [args EXCEPT !.plaintext = other]
        /\ ret' = chacha20_encrypt(args.key, args.counter, args.nonce, other)
    /\ orig' = args.plaintext
    /\ pc' = "chacha20_encrypt_other"
    /\ UNCHANGED <<overflow_checks, locals>>

\* A caller encrypts a buffer whole, and again as its first n chunks
\* followed by the rest, the rest from the counter of chunk n.
ChaCha20EncryptParts ==
    /\ pc = "main"
    /\ \E kn \in SeekKeyNoncePairs, counter \in SeekCounters,
          len \in Lengths :
        \E n \in 0..(len \div 64) :
            Parts(kn[1], counter, kn[2], TextOfLen(len), n)
    /\ pc' = "chacha20_encrypt_parts"
    /\ UNCHANGED <<overflow_checks, orig, locals>>

\* block_function step by step: the call, up to the loop.
BlockFunctionEnter ==
    /\ pc = "main"
    /\ \E kn \in KeyNoncePairs, counter \in Counters,
          source \in {"src/chacha20.rs", "src/main.rs"} :
        /\ args' = [key |-> kn[1], counter |-> counter, nonce |-> kn[2]]
        /\ BlockFunctionEntered(source, setup_key(kn[1], counter, kn[2]))
    /\ UNCHANGED <<overflow_checks, orig>>

\* One quarter-round statement of the loop.
BlockFunctionQuarterRound ==
    /\ pc = "block_function_loop"
    /\ locals.i < 80
    /\ locals' = quarter_round_statement(locals)
    /\ UNCHANGED <<overflow_checks, pc, args, ret, orig>>

\* The add-back loop and the return.
BlockFunctionReturn ==
    /\ pc = "block_function_loop"
    /\ locals.i = 80
    /\ locals' = add_back_statement(locals)
    /\ ret' = Returned(locals'.state)
    /\ pc' = "block_function_returned"
    /\ UNCHANGED <<overflow_checks, args, orig>>

\* chacha20_encrypt step by step: the call, up to the loop.
ChaCha20EncryptEnter ==
    /\ pc = "main"
    /\ \E kn \in KeyNoncePairs, counter \in Counters, len \in Lengths :
        /\ args' = [key |-> kn[1], counter |-> counter, nonce |-> kn[2],
                    plaintext |-> TextOfLen(len)]
        /\ locals' = chacha20_encrypt_locals(TextOfLen(len))
    /\ ret' = Returned(<<>>)
    /\ pc' = "chacha20_encrypt_loop"
    /\ UNCHANGED <<overflow_checks, orig>>

\* One iteration of `for j in 0..(plaintext.len() / 64)`.
ChaCha20EncryptChunk ==
    /\ pc = "chacha20_encrypt_loop"
    /\ locals.j < Len(args.plaintext) \div 64
    /\ ChunkWith(key_stream_block(args.key, args.counter, args.nonce,
                                  locals.j))
    /\ UNCHANGED <<overflow_checks, args, orig>>

\* The `if plaintext.len() % 64 != 1` block and the return.
ChaCha20EncryptReturn ==
    /\ pc = "chacha20_encrypt_loop"
    /\ locals.j >= Len(args.plaintext) \div 64
    /\ IF Len(args.plaintext) % 64 # 1
       THEN LastChunkWith(key_stream_block(args.key, args.counter,
                              args.nonce, Len(args.plaintext) \div 64))
       ELSE /\ ret' = Returned(locals.encrypted_message)
            /\ UNCHANGED locals
    /\ pc' = "chacha20_encrypt_returned"
    /\ UNCHANGED <<overflow_checks, args, orig>>

Next ==
    \/ QuarterRound
    \/ ApplyQuarterRound
    \/ SetupKey
    \/ BlockFunction
    \/ Serialized
    \/ ChaCha20Encrypt
    \/ ChaCha20EncryptAgain
    \/ ChaCha20EncryptOther
    \/ ChaCha20EncryptParts
    \/ BlockFunctionEnter
    \/ BlockFunctionQuarterRound
    \/ BlockFunctionReturn
    \/ ChaCha20EncryptEnter
    \/ ChaCha20EncryptChunk
    \/ ChaCha20EncryptReturn

Spec == Init /\ [][Next]_vars

---------------------------------------------------------------------------
(* Properties.                                                             *)

ValidLengths == Len(args.key) = 32 /\ Len(args.nonce) = 12

IsU32(w) == /\ Len(w) = 2
            /\ w[1] \in 0..65535
            /\ w[2] \in 0..65535

\* C1: for a 32-byte key and a 12-byte nonce, chacha20_encrypt applied to
\* the output of chacha20_encrypt, with the same key, counter and nonce,
\* returns the original data.
C1_RoundTrip ==
    (pc = "chacha20_encrypt_again" /\ ValidLengths)
        => ret = Returned(orig)

\* The key stream bytes of chunk j, with the counter taken modulo 2^32.
C2_KeyStream(j) ==
    serialized(block_function(
        args.key, overflowing_add(args.counter, as_u32(j))[1],
        args.nonce).val).val

C2_ChunkIsXor(j, key_stream) ==
    \A p \in (64 * j)..(Len(args.plaintext) - 1) :
        p < 64 * (j + 1)
            => ret.val[p + 1]
                 = bitxor_u8(args.plaintext[p + 1], key_stream[(p % 64) + 1])

\* C2: for a 32-byte key and a 12-byte nonce, every output position p holds
\* input[p] XOR byte p mod 64 of the serialized block for counter + p div 64,
\* in the whole chunks and in the final partial chunk.
C2_KeystreamXor ==
    (pc = "chacha20_encrypt" /\ ValidLengths)
        => /\ ret.outcome = "returned"
           /\ Len(ret.val) = Len(args.plaintext)
           /\ \A j \in 0..(Len(args.plaintext) \div 64) :
                  64 * j < Len(args.plaintext)
                      => C2_ChunkIsXor(j, C2_KeyStream(j))

\* C3: chacha20_encrypt with a key that is not 32 bytes or a nonce that is
\* not 12 bytes ends in an explicit invalid-input error: it neither panics
\* nor returns a buffer.
C3_EncryptRejectsBadLengths ==
    (pc = "chacha20_encrypt" /\ ~ValidLengths)
        => ret.outcome = "invalid_input"

\* C4: setup_key with a key that is not 32 bytes or a nonce that is not 12
\* bytes ends in an explicit length error: it neither panics nor returns a
\* state.
C4_SetupKeyRejectsBadLengths ==
    (pc = "setup_key" /\ ~ValidLengths)
        => ret.outcome = "invalid_length"

\* w = v[i] + 2^8 * v[i + 1] + 2^16 * v[i + 2] + 2^24 * v[i + 3], for the
\* 0-based index i of the byte vector v.
IsLittleEndianAt(w, v, i) ==
    /\ w[2] = v[i + 1] + 256 * v[i + 2]
    /\ w[1] = v[i + 3] + 256 * v[i + 4]

\* C5: for a 32-byte key and a 12-byte nonce, setup_key returns 16 words:
\* the four constants, the key as eight little-endian words, the counter,
\* the nonce as three little-endian words.
C5_SetupKeyLayout ==
    (pc = "setup_key" /\ ValidLengths)
        => /\ ret.outcome = "returned"
           /\ Len(ret.val) = 16
           /\ \A i \in 1..16 : IsU32(ret.val[i])
           /\ ret.val[1] = u32(24944, 30821)
           /\ ret.val[2] = u32(13088, 25710)
           /\ ret.val[3] = u32(31074, 11570)
           /\ ret.val[4] = u32(27424, 25972)
           /\ \A i \in 0..7 :
                  IsLittleEndianAt(ret.val[4 + i + 1], args.key, 4 * i)
           /\ ret.val[13] = args.counter
           /\ \A i \in 0..2 :
                  IsLittleEndianAt(ret.val[13 + i + 1], args.nonce, 4 * i)

C5_Witness ==
    /\ pc = "setup_key"
    /\ args = [key |-> TestKey, counter |-> u32(0, 1),
               nonce |-> TestNonceBlock]
    /\ ret = Returned(TestSetupState)

\* The quadruples of a double round, as C6 lists them.
C6_Quadruples ==
    <<<<0, 4, 8, 12>>, <<1, 5, 9, 13>>, <<2, 6, 10, 14>>, <<3, 7, 11, 15>>,
      <<0, 5, 10, 15>>, <<1, 6, 11, 12>>, <<2, 7, 8, 13>>, <<3, 4, 9, 14>>>>

\* w with the quarter round new written to the positions of quadruple q.
C6_Written(w, q, new) ==
    [w EXCEPT ![q[1] + 1] = new[1], ![q[2] + 1] = new[2],
              ![q[3] + 1] = new[3], ![q[4] + 1] = new[4]]

C6_QuarterRoundAt(w, q) ==
    C6_Written(w, q, quarter_round(w[q[1] + 1], w[q[2] + 1],
                                   w[q[3] + 1], w[q[4] + 1]))

\* w after the quarter rounds i..8 of one double round.
RECURSIVE C6_DoubleRoundFrom(_, _)
C6_DoubleRoundFrom(w, i) ==
    CASE Len(w) = 16 ->
        IF i > 8 THEN w
        ELSE C6_DoubleRoundFrom(C6_QuarterRoundAt(w, C6_Quadruples[i]), i + 1)

\* w after n double rounds.
RECURSIVE C6_DoubleRounds(_, _)
C6_DoubleRounds(w, n) ==
    CASE Len(w) = 16 ->
        IF n = 0 THEN w
        ELSE C6_DoubleRounds(C6_DoubleRoundFrom(w, 1), n - 1)

\* r = a + b modulo 2^32.
C6_IsSum(r, a, b) ==
    /\ IsU32(r)
    /\ (r[2] - a[2] - b[2]) % 65536 = 0
    /\ (r[1] - a[1] - b[1] - ((a[2] + b[2]) \div 65536)) % 65536 = 0

C6_IsSumOf(r, s, w) ==
    /\ Len(r) = 16
    /\ \A i \in 1..16 : C6_IsSum(r[i], s[i], w[i])

\* C6: for a 32-byte key and a 12-byte nonce, block_function returns
\* S[i] + W[i] mod 2^32, where S is the state of setup_key and W is S after
\* 10 double rounds of 8 quarter rounds on the quadruples of C6_Quadruples.
C6_BlockFunction ==
    (pc = "block_function" /\ ValidLengths)
        => /\ ret.outcome = "returned"
           /\ C6_IsSumOf(
                  ret.val,
                  setup_key(args.key, args.counter, args.nonce).val,
                  C6_DoubleRounds(
                      setup_key(args.key, args.counter, args.nonce).val, 10))

C6_Witness ==
    /\ pc = "block_function"
    /\ args = [key |-> TestKey, counter |-> u32(0, 1),
               nonce |-> TestNonceBlock]
    /\ ret = Returned(TestBlockState)

\* Bit i (0 the least significant) of the u32 w.
Bit(w, i) ==
    IF i < 16 THEN (w[2] \div (2 ^ i)) % 2
    ELSE (w[1] \div (2 ^ (i - 16))) % 2

\* The carry into bit i of a + b.
RECURSIVE CarryInto(_, _, _)
CarryInto(a, b, i) ==
    IF i = 0 THEN 0
    ELSE (Bit(a, i - 1) + Bit(b, i - 1) + CarryInto(a, b, i - 1)) \div 2

\* r = (a + b) mod 2^32, bit by bit.
C7_IsSum(r, a, b) ==
    /\ IsU32(r)
    /\ \A i \in 0..31 :
           Bit(r, i) = (Bit(a, i) + Bit(b, i) + CarryInto(a, b, i)) % 2

\* r = rotl(d ^ a, n), bit by bit.
C7_IsRotlXor(r, d, a, n) ==
    /\ IsU32(r)
    /\ \A i \in 0..31 :
           Bit(r, (i + n) % 32) = (Bit(d, i) + Bit(a, i)) % 2

\* One step `x += y; z ^= x; z <<<= n`: x1 and z1 are x and z after it.
C7_Step(x1, z1, x, y, z, n) ==
    /\ C7_IsSum(x1, x, y)
    /\ C7_IsRotlXor(z1, z, x1, n)

\* The four steps from a, b, c, d through a1, d1, c1, b1 to r.
C7_Steps(a, b, c, d, a1, d1, c1, b1, r) ==
    /\ C7_Step(a1, d1, a, b, d, 16)
    /\ C7_Step(c1, b1, c, d1, b, 12)
    /\ C7_Step(r[1], r[4], a1, b1, d1, 8)
    /\ C7_Step(r[3], r[2], c1, r[4], b1, 7)

\* The values of a, d, c, b after the first two steps, from the result r of
\* the last two: d1 = rotr(d2, 8) ^ a2, b1 = rotr(b2, 7) ^ c2, a1 = a2 - b1,
\* c1 = c2 - d2.
C7_D1(r) == bitxor_u32(rotate_left(r[4], 24), r[1])

C7_B1(r) == bitxor_u32(rotate_left(r[2], 25), r[3])

C7_Minus(a, b) ==
    u32((a[1] - b[1] - (IF a[2] < b[2] THEN 1 ELSE 0)) % 65536,
        (a[2] - b[2]) % 65536)

\* C7: quarter_round returns, and what it returns is the result of the four
\* steps a += b, d = rotl(d ^ a, 16); c += d, b = rotl(b ^ c, 12); a += b,
\* d = rotl(d ^ a, 8); c += d, b = rotl(b ^ c, 7), every word a u32.
C7_QuarterRound ==
    pc = "quarter_round"
        => /\ ret.outcome = "returned"
           /\ Len(ret.val) = 4
           /\ \A i \in 1..4 : IsU32(ret.val[i])
           /\ C7_Steps(args[1], args[2], args[3], args[4],
                       C7_Minus(ret.val[1], C7_B1(ret.val)),
                       C7_D1(ret.val),
                       C7_Minus(ret.val[3], ret.val[4]),
                       C7_B1(ret.val),
                       ret.val)

C7_Witness ==
    /\ pc = "quarter_round"
    /\ args = <<u32(4369, 4369), u32(258, 772), u32(39821, 28483),
                u32(291, 17767)>>
    /\ ret = Returned(<<u32(59946, 37620), u32(51996, 63694),
                        u32(17793, 18222), u32(22657, 50363)>>)

\* C8: for a 32-byte key and a 12-byte nonce, chacha20_encrypt returns a
\* buffer as long as its input.
C8_OutputLength ==
    (pc = "chacha20_encrypt" /\ ValidLengths)
        => /\ ret.outcome = "returned"
           /\ Len(ret.val) = Len(args.plaintext)

\* (w div 2^(8k)) mod 256, for k in 0..3.
ByteOf(w, k) ==
    IF k < 2 THEN (w[2] \div (256 ^ k)) % 256
    ELSE (w[1] \div (256 ^ (k - 2))) % 256

\* C9: for a 16-word state, serialized returns 64 bytes, byte 4i + k being
\* (word i div 2^(8k)) mod 256, and the 64 bytes read back as 16
\* little-endian words are the state.
C9_Serialized ==
    (pc = "serialized" /\ Len(args.arr32) = 16)
        => /\ ret.outcome = "returned"
           /\ Len(ret.val) = 64
           /\ \A i \in 0..15, k \in 0..3 :
                  ret.val[4 * i + k + 1] = ByteOf(args.arr32[i + 1], k)
           /\ \A i \in 0..15 :
                  IsLittleEndianAt(args.arr32[i + 1], ret.val, 4 * i)

C9_Witness ==
    /\ pc = "serialized"
    /\ args = [arr32 |-> TestBlockState]
    /\ ret = Returned(TestBlockBytes)

\* The quarter round of the old values at the four positions.
C10_New == quarter_round(args.words_16[args.x + 1], args.words_16[args.y + 1],
                         args.words_16[args.z + 1], args.words_16[args.w + 1])

\* The result has the quarter round at x, y, z, w and the old values at the
\* other positions.
C10_FourPositions ==
    /\ ret.outcome = "returned"
    /\ Len(ret.val) = 16
    /\ ret.val[args.x + 1] = C10_New[1]
    /\ ret.val[args.y + 1] = C10_New[2]
    /\ ret.val[args.z + 1] = C10_New[3]
    /\ ret.val[args.w + 1] = C10_New[4]
    /\ \A i \in 0..15 :
           i \notin {args.x, args.y, args.z, args.w}
               => ret.val[i + 1] = args.words_16[i + 1]

\* C10 as stated: for every 16-word state and every quadruple of indices in
\* 0..15.
C10_EveryQuadruple ==
    (pc = "apply_quarter_round" /\ Len(args.words_16) = 16)
        => C10_FourPositions

\* C10, amended: for every 16-word state and every quadruple of pairwise
\* distinct indices in 0..15, apply_quarter_round sets the positions x, y,
\* z, w to the quarter round of their old values and leaves the other 12
\* positions as they were.
C10_DistinctQuadruple ==
    (pc = "apply_quarter_round" /\ Len(args.words_16) = 16
        /\ Cardinality({args.x, args.y, args.z, args.w}) = 4)
        => C10_FourPositions

C10_Witness ==
    /\ pc = "apply_quarter_round"
    /\ args = [x |-> 2, y |-> 7, z |-> 8, w |-> 13, words_16 |-> SampleState]
    /\ ret = Returned(SampleStateAfter)

---------------------------------------------------------------------------
(* Properties of chacha20_encrypt and block_function followed step by      *)
(* step, and of several calls.                                             *)

\* The call followed step by step has returned or panicked.
EncryptEnded == pc = "chacha20_encrypt_returned" /\ ValidLengths

\* C11: for every initial counter c and every input length, each block
\* counter that chacha20_encrypt computes is c + j modulo 2^32, the one of
\* the trailing block j = L div 64 included, and the call completes without
\* a panic.
C11_CounterWraps ==
    EncryptEnded
        => /\ ret.outcome = "returned"
           /\ \A i \in 1..Len(locals.block_counters) :
                  C7_IsSum(locals.block_counters[i], args.counter,
                           as_u32(i - 1))

\* ceil(L / 64)
C12_Ceil(L) == (L + 63) \div 64

\* C12: a call on L bytes that returns has computed exactly ceil(L / 64)
\* key stream blocks, for the counters c, c + 1, ..., c + ceil(L / 64) - 1
\* in this order, and every position of the output was written by one of
\* them (the last block contributes the bytes that remain).
C12_CeilBlocks ==
    (EncryptEnded /\ ret.outcome = "returned")
        => /\ Len(locals.block_counters) = C12_Ceil(Len(args.plaintext))
           /\ \A i \in 1..Len(locals.block_counters) :
                  C7_IsSum(locals.block_counters[i], args.counter,
                           as_u32(i - 1))
           /\ \A p \in 1..Len(args.plaintext) : locals.written[p] = 1

\* The outputs first and second of two calls on the inputs a and b agree at
\* the positions where a and b agree, and only there.
C13_Independent(a, first, b, second) ==
    /\ first.outcome = "returned"
    /\ second.outcome = "returned"
    /\ \A p \in 1..Len(a) : (a[p] = b[p]) <=> (first.val[p] = second.val[p])

\* C13: for the same key, nonce and counter and two inputs of the same
\* length, the outputs agree at position p if the inputs agree at p and
\* differ at p if the inputs differ at p, for every p < L.
C13_ByteIndependence ==
    (pc = "chacha20_encrypt_other" /\ ValidLengths)
        => C13_Independent(orig,
                           chacha20_encrypt(args.key, args.counter,
                                            args.nonce, orig),
                           args.plaintext, ret)

\* The four constants of words 0..3.
C14_Constants ==
    <<u32(24944, 30821), u32(13088, 25710),
      u32(31074, 11570), u32(27424, 25972)>>

\* C14: inside block_function (of either file) the state that setup_key
\* built is unchanged after each quarter-round statement, its words 0..3
\* are the four constants, and the value returned is that state plus the
\* working copy.
C14_StateUnchanged ==
    /\ pc = "block_function_loop"
        => /\ Returned(locals.state)
                = setup_key(args.key, args.counter, args.nonce)
           /\ SubSeq(locals.state, 1, 4) = C14_Constants
    /\ (pc = "block_function_returned" /\ ret.outcome = "returned")
        => \A i \in 1..16 :
               C7_IsSum(ret.val[i],
                        setup_key(args.key, args.counter, args.nonce).val[i],
                        locals.x[i])

C14_Witness ==
    /\ pc = "block_function_loop"
    /\ locals.source = "src/main.rs"
    /\ locals.i = 80
    /\ args = [key |-> TestKey, counter |-> u32(0, 1),
               nonce |-> TestNonceBlock]
    /\ locals.state = TestSetupState
    /\ locals.x # TestSetupState

\* C15: block_function of src/chacha20.rs returns the words that
\* block_function of src/main.rs returns, for every 32-byte key, counter
\* and 12-byte nonce; and on a 16-word state with pairwise distinct
\* indices, macro_quarter_round!(s[x], s[y], s[z], s[w]) leaves s equal to
\* apply_quarter_round(x, y, z, w, s).
C15_Equivalent ==
    /\ (pc = "block_function" /\ ValidLengths)
        => /\ ret.outcome = "returned"
           /\ ret = main_block_function(args.key, args.counter, args.nonce)
    /\ (/\ pc = "apply_quarter_round"
        /\ Len(args.words_16) = 16
        /\ Cardinality({args.x, args.y, args.z, args.w}) = 4)
        => Returned(macro_quarter_round(args.words_16, args.x, args.y,
                                        args.z, args.w)) = ret

C15_Witness ==
    /\ pc = "apply_quarter_round"
    /\ args = [x |-> 3, y |-> 4, z |-> 9, w |-> 14,
               words_16 |-> TestSetupState]
    /\ ret.outcome = "returned"
    /\ ret.val # TestSetupState
    /\ ret.val = macro_quarter_round(TestSetupState, 3, 4, 9, 14)

\* C16: a call on L bytes with L mod 64 = 1 computes L div 64 key stream
\* blocks, never writes position L - 1 and returns an output whose last
\* byte is 0x00, whatever the key, nonce, counter and input are; with any
\* other L every position p < L is written exactly once.
C16_SkipsTrailingBlock ==
    EncryptEnded
        => IF Len(args.plaintext) % 64 = 1
           THEN /\ ret.outcome = "returned"
                /\ Len(locals.block_counters) = Len(args.plaintext) \div 64
                /\ locals.written[Len(args.plaintext)] = 0
                /\ ret.val[Len(ret.val)] = 0
           ELSE \A p \in 1..Len(args.plaintext) : locals.written[p] = 1

\* The largest j for which a call on L bytes computes the counter c + j
\* (-1 when it computes none).
C17_LastChunk(L) == IF L % 64 = 1 THEN (L \div 64) - 1 ELSE L \div 64

\* c + j exceeds 2^32 - 1.
C17_Exceeds(c, j) == j >= 0 /\ overflowing_add(c, as_u32(j))[2]

\* No counter that one of the three calls uses exceeds 2^32 - 1: those of
\* the whole buffer, those of its first n chunks, and those of the rest,
\* which start at c + n.
C17_NoCounterExceeds ==
    /\ ~C17_Exceeds(args.counter, C17_LastChunk(Len(args.plaintext)))
    /\ ~C17_Exceeds(args.counter, args.n)
    /\ ~C17_Exceeds(args.counter,
                    args.n + C17_LastChunk(Len(args.plaintext)
                                           - 64 * args.n))

\* C17: for a buffer A of n chunks and a buffer B, the call on A ++ B with
\* counter c returns the output of the call on A with counter c followed
\* by the output of the call on B with counter c + n, provided no counter
\* used exceeds 2^32 - 1.
C17_Seek ==
    (pc = "chacha20_encrypt_parts" /\ C17_NoCounterExceeds)
        => /\ ret.whole.outcome = "returned"
           /\ ret.head.outcome = "returned"
           /\ ret.tail.outcome = "returned"
           /\ ret.whole.val = ret.head.val \o ret.tail.val

C17_Witness ==
    /\ pc = "chacha20_encrypt_parts"
    /\ overflow_checks
    /\ args.counter = u32(65535, 65534)
    /\ args.n = 1
    /\ Len(args.plaintext) = 127
    /\ C17_NoCounterExceeds
    /\ ret.whole.outcome = "returned"
    /\ Len(ret.head.val) = 64
    /\ Len(ret.tail.val) = 63
    /\ ret.whole.val = ret.head.val \o ret.tail.val

===========================================================================
